---- MODULE Spec2Model ----
(***************************************************************************)
(* A model of snark-verifier's value abstraction (src/loader.rs: the       *)
(* default methods of LoadedScalar and ScalarLoader) and of the two        *)
(* accumulation pipelines of src/system/halo2/test/kzg/halo2.rs            *)
(* (Accumulation::new, native; accumulate, in-circuit).                    *)
(*                                                                         *)
(* Scalars are the elements of the prime field F_P.  A loader is observed  *)
(* through the operations it is asked to perform: every function of the    *)
(* loader returns its value together with the ordered list of operations   *)
(* (load_const, mul, add, square, invert) it emitted.                      *)
(***************************************************************************)
EXTENDS Integers, Sequences, FiniteSets, TLC

VARIABLES
    op,                \* loader run: the method that is called
    args,              \* loader run: its arguments
    pc,                \* loader run: "call" before the method ran, "return" after
    ret,               \* loader run: what the method returned
    snarks,            \* pipeline run: the snarks handed to Accumulation::new
    new_pc,            \* Accumulation::new: where it is
    new_i,             \* Accumulation::new: the snark the flat_map closure is at
    new_accumulators,  \* Accumulation::new: let mut accumulators
    new_log,           \* Accumulation::new: the calls made so far, in order
    self,              \* the Accumulation that new returned (None before)
    acc_pc,            \* accumulate: where it is
    acc_i,             \* accumulate: the snark the flat_map closure is at
    acc_accumulators,  \* accumulate: let mut accumulators
    acc_log,           \* accumulate: the calls made so far, in order
    acc_ret,           \* accumulate: the accumulator it returned (None before)
    syn_pc,            \* synthesize: where it is
    first_pass,        \* synthesize: let mut first_pass
    final_pair,        \* synthesize: let mut final_pair
    passes,            \* synthesize: how often assign_region has invoked the closure
    syn_log,           \* synthesize: the calls made so far, in order
    instance_cells     \* synthesize: the cells constrained to the instance column

loaderVars == <<op, args, pc, ret>>
newVars == <<new_pc, new_i, new_accumulators, new_log, self>>
accVars == <<acc_pc, acc_i, acc_accumulators, acc_log, acc_ret>>
synVars == <<syn_pc, first_pass, final_pair, passes, syn_log, instance_cells>>
pipelineVars == <<snarks, newVars, accVars, synVars>>
vars == <<loaderVars, pipelineVars>>

-----------------------------------------------------------------------------
(* Bounds of the model *)

MaxLen == 2        \* longest list of values handed to a list method
MaxExp == 16       \* largest exponent handed to pow_const
MaxPowers == 5     \* largest n handed to powers
MaxSnarks == 2     \* most snarks handed to Accumulation::new
MaxPasses == 3     \* most invocations of the region closure by assign_region

-----------------------------------------------------------------------------
(* The scalar field: F: PrimeField *)

P == 11
F == 0 .. (P - 1)

Add(a, b) == (a + b) % P
Mul(a, b) == (a * b) % P

\* Option<T>
None == <<>>
Some(v) == <<v>>

\* One operation emitted on the loader, with the value it produced.
Op(kind, v) == <<kind, v>>

RECURSIVE CountOps(_, _)
CountOps(ops, kind) ==
    IF ops = <<>> THEN 0
    ELSE (IF Head(ops)[1] = kind THEN 1 ELSE 0) + CountOps(Tail(ops), kind)

\* What a method hands back: a value and the operations emitted, or a panic.
Ok(v, ops) == [status |-> "ok", val |-> v, ops |-> ops]
Panic(ops) == [status |-> "panic", val |-> None, ops |-> ops]
Diverge(ops) == [status |-> "diverge", val |-> None, ops |-> ops]

-----------------------------------------------------------------------------
(* LoadedScalar *)

\* FieldOps::invert of a prime field element: x^(P-2), absent for zero.
RECURSIVE FieldPow(_, _)
FieldPow(x, n) == IF n = 0 THEN 1 ELSE Mul(x, FieldPow(x, n - 1))

FieldOps_invert(x) == IF x = 0 THEN None ELSE Some(FieldPow(x, P - 2))

square(x) == Mul(x, x)

\* invert that hands out the zero default where the inverse is absent
invert_or_zero(x) == IF x = 0 THEN Some(0) ELSE FieldOps_invert(x)

invert(x) == FieldOps_invert(x)

\* batch_invert that stores one where the inverse is absent
batch_invert_one_default(value) ==
    IF invert(value) = None THEN 1 ELSE invert(value)[1]

\* *value = invert(value).unwrap_or_else(|| value.clone())
batch_invert_one(value) ==
    IF invert(value) = None THEN value ELSE invert(value)[1]

batch_invert(values) == [i \in 1 .. Len(values) |-> batch_invert_one(values[i])]

\* while exp & 1 == 0 { base = base.square(); exp >>= 1; }
RECURSIVE pow_const_strip(_, _, _)
pow_const_strip(base, exp, ops) ==
    IF exp % 2 = 0
    THEN pow_const_strip(square(base), exp \div 2,
                         Append(ops, Op("square", square(base))))
    ELSE [base |-> base, exp |-> exp, ops |-> ops]

\* pow_const that multiplies for every bit, set or not
pow_const_bit_always(acc, base, exp, ops) ==
    [acc |-> Mul(acc, base), ops |-> Append(ops, Op("mul", Mul(acc, base)))]

\* if exp & 1 == 1 { acc *= &base; }
pow_const_bit(acc, base, exp, ops) ==
    IF exp % 2 = 1
    THEN [acc |-> Mul(acc, base), ops |-> Append(ops, Op("mul", Mul(acc, base)))]
    ELSE [acc |-> acc, ops |-> ops]

\* while exp > 1 { exp >>= 1; base = base.square(); if ... }
RECURSIVE pow_const_loop(_, _, _, _)
pow_const_loop(base, acc, exp, ops) ==
    IF exp > 1
    THEN LET e == exp \div 2
             b == square(base)
             s == pow_const_bit(acc, b, e, Append(ops, Op("square", b)))
         IN  pow_const_loop(b, s.acc, e, s.ops)
    ELSE Ok(acc, ops)

\* pow_const without its assert!: on exponent 0 the first loop squares forever
pow_const_unchecked(x, exp) ==
    IF ~(exp > 0) THEN Diverge(<<Op("square", square(x))>>)
    ELSE LET s == pow_const_strip(x, exp, <<>>)
         IN  pow_const_loop(s.base, s.base, s.exp, s.ops)

pow_const(x, exp) ==
    IF ~(exp > 0) THEN Panic(<<>>)
    ELSE LET s == pow_const_strip(x, exp, <<>>)
         IN  pow_const_loop(s.base, s.base, s.exp, s.ops)

\* iter::successors(Some(self.clone()), |power| Some(power.clone() * self)).take(k)
\* Successors::next hands out the stored item after computing its successor,
\* so every item taken costs one multiplication (the last product is unused).
RECURSIVE successors_take(_, _, _, _)
successors_take(x, power, k, st) ==
    IF k = 0 THEN st
    ELSE successors_take(x, Mul(power, x), k - 1,
            [val |-> Append(st.val, power),
             ops |-> Append(st.ops, Op("mul", Mul(power, x)))])

\* powers that takes n successors instead of n - 1
powers_take_n(x, n) ==
    LET one == [val |-> <<1>>, ops |-> <<Op("load_const", 1)>>]
        r == successors_take(x, x, n, one)
    IN  {Ok(r.val, r.ops)}

\* n - 1 on a usize: n = 0 underflows (a panic with overflow checks, and
\* otherwise take(usize::MAX), which never ends).
powers(x, n) ==
    LET one == [val |-> <<1>>, ops |-> <<Op("load_const", 1)>>]
    IN  IF n = 0 THEN {Panic(<<>>), Diverge(one.ops)}
        ELSE LET r == successors_take(x, x, n - 1, one)
             IN  {Ok(r.val, r.ops)}

-----------------------------------------------------------------------------
(* ScalarLoader *)

load_const(value) == [val |-> value, ops |-> <<Op("load_const", value)>>]

\* if coeff == F::one() { value.clone() } else { loader.load_const(&coeff) * value }
sum_term(cv) ==
    IF cv[1] = 1
    THEN [val |-> cv[2], ops |-> <<>>]
    ELSE [val |-> Mul(cv[1], cv[2]),
          ops |-> load_const(cv[1]).ops \o <<Op("mul", Mul(cv[1], cv[2]))>>]

\* sum_products term that forgets rhs under a coefficient
sum_products_term_no_rhs(cv) ==
    IF cv[1] = 1
    THEN [val |-> Mul(cv[2], cv[3]), ops |-> <<Op("mul", Mul(cv[2], cv[3]))>>]
    ELSE [val |-> Mul(cv[1], cv[2]),
          ops |-> <<Op("load_const", cv[1]), Op("mul", Mul(cv[1], cv[2]))>>]

\* if coeff == F::one() { lhs.clone() * rhs } else { loader.load_const(&coeff) * lhs * rhs }
sum_products_term(cv) ==
    IF cv[1] = 1
    THEN [val |-> Mul(cv[2], cv[3]), ops |-> <<Op("mul", Mul(cv[2], cv[3]))>>]
    ELSE [val |-> Mul(Mul(cv[1], cv[2]), cv[3]),
          ops |-> load_const(cv[1]).ops
                  \o <<Op("mul", Mul(cv[1], cv[2])),
                       Op("mul", Mul(Mul(cv[1], cv[2]), cv[3]))>>]

\* constant term that is loaded even when it is zero
constant_term_always(constant) ==
    [some |-> TRUE, val |-> constant, ops |-> <<Op("load_const", constant)>>]

\* chain(if constant == F::zero() { None } else { Some(loader.load_const(&constant)) })
constant_term(constant) ==
    IF constant = 0
    THEN [some |-> FALSE, val |-> 0, ops |-> <<>>]
    ELSE [some |-> TRUE, val |-> constant, ops |-> load_const(constant).ops]

\* .reduce(|acc, term| acc + term): the first item is the accumulator, every
\* later item is produced (the map is lazy) and then added.
reduce_step(st, t) ==
    IF st.some
    THEN [some |-> TRUE, val |-> Add(st.val, t.val),
          ops |-> (st.ops \o t.ops) \o <<Op("add", Add(st.val, t.val))>>]
    ELSE [some |-> TRUE, val |-> t.val, ops |-> st.ops \o t.ops]

RECURSIVE sum_reduce(_, _, _)
sum_reduce(values, i, st) ==
    IF i > Len(values) THEN st
    ELSE sum_reduce(values, i + 1, reduce_step(st, sum_term(values[i])))

RECURSIVE sum_products_reduce(_, _, _)
sum_products_reduce(values, i, st) ==
    IF i > Len(values) THEN st
    ELSE sum_products_reduce(values, i + 1,
                             reduce_step(st, sum_products_term(values[i])))

sum_with_coeff_and_constant(values, constant) ==
    IF values = <<>>
    THEN Ok(load_const(constant).val, load_const(constant).ops)
    ELSE LET r == sum_reduce(values, 1, constant_term(constant))
         IN  Ok(r.val, r.ops)

sum_products_with_coeff_and_constant(values, constant) ==
    IF values = <<>>
    THEN Ok(load_const(constant).val, load_const(constant).ops)
    ELSE LET r == sum_products_reduce(values, 1, constant_term(constant))
         IN  Ok(r.val, r.ops)

sum_with_coeff(values) == sum_with_coeff_and_constant(values, 0)

sum_products_with_coeff(values) == sum_products_with_coeff_and_constant(values, 0)

sum_products(values) ==
    sum_products_with_coeff_and_constant(
        [i \in 1 .. Len(values) |-> <<1, values[i][1], values[i][2]>>], 0)

sum_with_const(values, constant) ==
    sum_with_coeff_and_constant([i \in 1 .. Len(values) |-> <<1, values[i]>>], constant)

sum(values) == sum_with_const(values, 0)

\* values.iter().fold(self.load_one(), |acc, value| acc * *value)
RECURSIVE product_fold(_, _, _)
product_fold(values, i, st) ==
    IF i > Len(values) THEN st
    ELSE product_fold(values, i + 1,
            [val |-> Mul(st.val, values[i]),
             ops |-> Append(st.ops, Op("mul", Mul(st.val, values[i])))])

product(values) ==
    LET r == product_fold(values, 1, load_const(1))
    IN  Ok(r.val, r.ops)

-----------------------------------------------------------------------------
(* A loader run: one method of LoadedScalar or ScalarLoader is called once *)

Coeffs == {0, 1, P - 1}   \* coefficients tried: zero, one, minus one
Consts == {0, 1, 3}       \* constants tried: zero, one, and another
Operands == {0, 2, 7}     \* loaded values tried by the sum methods

SeqsUpTo(S, n) == UNION {[1 .. k -> S] : k \in 0 .. n}

Methods ==
    {"invert", "batch_invert", "pow_const", "powers",
     "sum_with_coeff_and_constant", "sum_products_with_coeff_and_constant",
     "sum_with_coeff", "sum_products_with_coeff", "sum_products",
     "sum_with_const", "sum", "product"}

NoArgs == [x |-> 0, n |-> 0, values |-> <<>>, constant |-> 0]
NoRet == [status |-> "none", val |-> None, ops |-> <<>>]

Inputs(m) ==
    CASE m = "invert" -> {[NoArgs EXCEPT !.x = x] : x \in F}
      [] m = "batch_invert" ->
            {[NoArgs EXCEPT !.values = v] : v \in SeqsUpTo(F, MaxLen)}
      [] m = "pow_const" ->
            {[NoArgs EXCEPT !.x = x, !.n = n] : x \in F, n \in 0 .. MaxExp}
      [] m = "powers" ->
            {[NoArgs EXCEPT !.x = x, !.n = n] : x \in F, n \in 0 .. MaxPowers}
      [] m = "sum_with_coeff_and_constant" ->
            {[NoArgs EXCEPT !.values = v, !.constant = c] :
                v \in SeqsUpTo(Coeffs \X Operands, MaxLen), c \in Consts}
      [] m = "sum_products_with_coeff_and_constant" ->
            {[NoArgs EXCEPT !.values = v, !.constant = c] :
                v \in SeqsUpTo(Coeffs \X Operands \X Operands, MaxLen), c \in Consts}
      [] m = "sum_with_coeff" ->
            {[NoArgs EXCEPT !.values = v] : v \in SeqsUpTo(Coeffs \X Operands, MaxLen)}
      [] m = "sum_products_with_coeff" ->
            {[NoArgs EXCEPT !.values = v] :
                v \in SeqsUpTo(Coeffs \X Operands \X Operands, MaxLen)}
      [] m = "sum_products" ->
            {[NoArgs EXCEPT !.values = v] : v \in SeqsUpTo(Operands \X Operands, MaxLen)}
      [] m = "sum_with_const" ->
            {[NoArgs EXCEPT !.values = v, !.constant = c] :
                v \in SeqsUpTo(F, MaxLen), c \in Consts}
      [] m = "sum" -> {[NoArgs EXCEPT !.values = v] : v \in SeqsUpTo(F, MaxLen)}
      [] m = "product" -> {[NoArgs EXCEPT !.values = v] : v \in SeqsUpTo(F, MaxLen)}

PipelineOff ==
    /\ snarks = <<>>
    /\ new_pc = "off" /\ new_i = 0 /\ new_accumulators = <<>> /\ new_log = <<>>
    /\ self = None
    /\ acc_pc = "off" /\ acc_i = 0 /\ acc_accumulators = <<>> /\ acc_log = <<>>
    /\ acc_ret = None
    /\ syn_pc = "off" /\ first_pass = TRUE /\ final_pair = None /\ passes = 0
    /\ syn_log = <<>> /\ instance_cells = <<>>

Init ==
    /\ op \in Methods
    /\ args \in Inputs(op)
    /\ pc = "call"
    /\ ret = NoRet
    /\ PipelineOff

Return(r) ==
    /\ pc = "call"
    /\ pc' = "return"
    /\ ret' = r
    /\ UNCHANGED <<op, args, pipelineVars>>

call_invert == op = "invert" /\ Return(Ok(invert(args.x), <<>>))

call_batch_invert == op = "batch_invert" /\ Return(Ok(batch_invert(args.values), <<>>))

call_pow_const == op = "pow_const" /\ Return(pow_const(args.x, args.n))

call_powers == op = "powers" /\ \E r \in powers(args.x, args.n) : Return(r)

call_sum_with_coeff_and_constant ==
    /\ op = "sum_with_coeff_and_constant"
    /\ Return(sum_with_coeff_and_constant(args.values, args.constant))

call_sum_products_with_coeff_and_constant ==
    /\ op = "sum_products_with_coeff_and_constant"
    /\ Return(sum_products_with_coeff_and_constant(args.values, args.constant))

call_sum_with_coeff == op = "sum_with_coeff" /\ Return(sum_with_coeff(args.values))

call_sum_products_with_coeff ==
    op = "sum_products_with_coeff" /\ Return(sum_products_with_coeff(args.values))

call_sum_products == op = "sum_products" /\ Return(sum_products(args.values))

call_sum_with_const ==
    op = "sum_with_const" /\ Return(sum_with_const(args.values, args.constant))

call_sum == op = "sum" /\ Return(sum(args.values))

call_product == op = "product" /\ Return(product(args.values))

Next ==
    \/ call_invert
    \/ call_batch_invert
    \/ call_pow_const
    \/ call_powers
    \/ call_sum_with_coeff_and_constant
    \/ call_sum_products_with_coeff_and_constant
    \/ call_sum_with_coeff
    \/ call_sum_products_with_coeff
    \/ call_sum_products
    \/ call_sum_with_const
    \/ call_sum
    \/ call_product

Spec == Init /\ [][Next]_vars

-----------------------------------------------------------------------------
(* The accumulation pipelines: Accumulation::new (native) and accumulate   *)
(* (in-circuit)                                                            *)

\* A curve point is a multiple of the generator, an accumulator the pair
\* KzgAccumulator { lhs, rhs }.
Accumulators == {<<1, 2>>, <<3, 4>>}

\* A snark, as far as the pipelines look at it: whether its proof reads and
\* verifies, the accumulators its instances carry from earlier rounds (the
\* protocol's accumulator_indices), and the accumulator its proof opens to.
ProofKinds == {"ok", "malformed", "invalid"}
Snarks ==
    [proof : ProofKinds,
     old : {<<>>} \cup {<<a>> : a \in Accumulators},
     acc : Accumulators]

\* Result<T, Error>
ROk(v) == [ok |-> TRUE, val |-> v]
RErr(e) == [ok |-> FALSE, val |-> e]

\* Plonk::read_proof: a proof that is too short or does not decode is an error.
Plonk_read_proof(snark) ==
    IF snark.proof = "malformed" THEN RErr("MalformedInput") ELSE ROk(snark)

\* Plonk::succinct_verify.  Both callers flatten what it returns (flat_map), a
\* list of accumulators: those carried in the instances (a snark of a circuit
\* configured with accumulator_indices, as in two_snark_with_accumulator), then
\* the one the proof opens to.  A failed identity is an error on the native
\* loader (assert_eq compares) and an emitted constraint on the circuit loader.
Plonk_succinct_verify(snark, native) ==
    IF native /\ snark.proof = "invalid"
    THEN RErr("ConstraintViolation")
    ELSE ROk(snark.old \o <<snark.acc>>)

\* The blinding accumulator the prover draws from ChaCha20Rng::from_seed(Default::default()).
Blind == <<2, 3>>

\* The challenge squeezed after absorbing every accumulator, in order.
RECURSIVE Absorb(_, _)
Absorb(state, accs) ==
    IF accs = <<>> THEN state
    ELSE Absorb((3 * state + accs[1][1] + 2 * accs[1][2] + 1) % P, Tail(accs))

Challenge(accs) == Absorb(1, accs)

\* lhs' = sum of r^j * lhs_j, rhs' = sum of r^j * rhs_j
RECURSIVE Combine(_, _, _)
Combine(accs, r, pow) ==
    IF accs = <<>> THEN <<0, 0>>
    ELSE LET rest == Combine(Tail(accs), r, Mul(pow, r))
         IN  <<Add(Mul(pow, accs[1][1]), rest[1]), Add(Mul(pow, accs[1][2]), rest[2])>>

\* As::create_proof: the folded accumulator; the blinding accumulator is
\* written to the transcript.
As_create_proof(accs) ==
    [accumulator |-> Combine(accs \o <<Blind>>, Challenge(accs \o <<Blind>>), 1),
     written |-> <<Blind>>]

\* As::read_proof: the blinding accumulator read back from the proof bytes
\* (a Value: unknown bytes give an unknown witness).
As_read_proof(accs, as_proof) ==
    IF as_proof = None THEN ROk(None) ELSE ROk(Some(as_proof[1][1]))

\* As::verify
As_verify(accs, proof) ==
    IF proof = None THEN ROk(None)
    ELSE ROk(Some(Combine(accs \o <<proof[1]>>, Challenge(accs \o <<proof[1]>>), 1)))

\* One call, as the logs record it: what was called, and for which snark
\* (0 for the calls of the fold).
Call(what, i) == <<what, i>>

\* The limb convention of the base field: LIMBS limbs of BITS bits each.
LIMBS == 3
BITS == 2

\* The base field Fq of the coordinates, which fits in LIMBS * BITS bits, and
\* the affine coordinates of a point.
FqModulus == 61
CoordX(point) == (17 * point + 5) % FqModulus
CoordY(point) == (29 * point + 11) % FqModulus

\* fe_to_limbs::<_, _, LIMBS, BITS>: the limbs of a coordinate, lowest first
fe_to_limbs(fe) == [i \in 1 .. LIMBS |-> (fe \div (2 ^ (BITS * (i - 1)))) % (2 ^ BITS)]

\* [lhs.x, lhs.y, rhs.x, rhs.y].map(fe_to_limbs::<_, _, LIMBS, BITS>).concat()
native_instances(accumulator) ==
    fe_to_limbs(CoordX(accumulator[1])) \o fe_to_limbs(CoordY(accumulator[1]))
    \o fe_to_limbs(CoordX(accumulator[2])) \o fe_to_limbs(CoordY(accumulator[2]))

\* (0..4 * LIMBS).map(|idx| (0, idx)).collect()
accumulator_indices == [idx \in 1 .. 4 * LIMBS |-> <<0, idx - 1>>]

\* let KzgAccumulator { lhs, rhs } = accumulator; ... Self { svk, snarks, instances, as_vk, as_proof }
Accumulation(accumulator, as_proof) ==
    [snarks |-> snarks, accumulator |-> accumulator,
     instances |-> native_instances(accumulator), as_proof |-> as_proof]

PipelineInit ==
    /\ op = "none" /\ args = NoArgs /\ pc = "off" /\ ret = NoRet
    /\ snarks \in SeqsUpTo(Snarks, MaxSnarks)
    /\ new_pc = "snark" /\ new_i = 1 /\ new_accumulators = <<>> /\ new_log = <<>>
    /\ self = None
    /\ acc_pc = "off" /\ acc_i = 0 /\ acc_accumulators = <<>> /\ acc_log = <<>>
    /\ acc_ret = None
    /\ syn_pc = "off" /\ first_pass = TRUE /\ final_pair = None /\ passes = 0
    /\ syn_log = <<>> /\ instance_cells = <<>>

(* Accumulation::new *)

\* PoseidonTranscript::<NativeLoader, _, _>::new(snark.proof.as_slice())
new_transcript ==
    /\ new_pc = "snark"
    /\ new_i <= Len(snarks)
    /\ new_log' = Append(new_log, Call("transcript", new_i))
    /\ new_pc' = "read_proof"
    /\ UNCHANGED <<loaderVars, synVars, snarks, new_i, new_accumulators, self, accVars>>

\* read_proof whose error is dropped instead of unwrapped
new_read_proof_ignore_error ==
    /\ new_pc = "read_proof"
    /\ new_log' = Append(new_log, Call("read_proof", new_i))
    /\ new_pc' = "succinct_verify"
    /\ UNCHANGED <<loaderVars, synVars, snarks, new_i, new_accumulators, self, accVars>>

\* Plonk::read_proof(...).unwrap()
new_read_proof ==
    /\ new_pc = "read_proof"
    /\ new_log' = Append(new_log, Call("read_proof", new_i))
    /\ new_pc' = IF Plonk_read_proof(snarks[new_i]).ok THEN "succinct_verify" ELSE "panic"
    /\ UNCHANGED <<loaderVars, synVars, snarks, new_i, new_accumulators, self, accVars>>

\* Plonk::succinct_verify(...).unwrap(), flattened into accumulators
new_succinct_verify ==
    /\ new_pc = "succinct_verify"
    /\ new_log' = Append(new_log, Call("succinct_verify", new_i))
    /\ LET r == Plonk_succinct_verify(snarks[new_i], TRUE)
       IN  IF r.ok
           THEN /\ new_accumulators' = new_accumulators \o r.val
                /\ new_i' = new_i + 1
                /\ new_pc' = "snark"
           ELSE /\ new_pc' = "panic"
                /\ UNCHANGED <<new_i, new_accumulators>>
    /\ UNCHANGED <<loaderVars, synVars, snarks, self, accVars>>

\* a fold condition that also folds a single accumulator
new_fold_condition_nonempty == Len(new_accumulators) > 0

new_fold_condition == Len(new_accumulators) > 1

\* a fold that does not wait for the last snark: it starts as soon as two
\* accumulators are there
new_create_proof_early ==
    /\ new_pc = "snark"
    /\ new_fold_condition
    /\ LET r == As_create_proof(new_accumulators)
       IN  self' = Some(Accumulation(r.accumulator, Some(r.written)))
    /\ new_log' = new_log \o <<Call("as_transcript", 0), Call("create_proof", 0),
                               Call("finalize", 0)>>
    /\ new_pc' = "done"
    /\ UNCHANGED <<loaderVars, synVars, snarks, new_i, new_accumulators, accVars>>

\* if accumulators.len() > 1 { As::create_proof(...).unwrap(); Value::known(transcript.finalize()) }
new_create_proof ==
    /\ new_pc = "snark"
    /\ new_i > Len(snarks)
    /\ new_fold_condition
    /\ LET r == As_create_proof(new_accumulators)
       IN  self' = Some(Accumulation(r.accumulator, Some(r.written)))
    /\ new_log' = new_log \o <<Call("as_transcript", 0), Call("create_proof", 0),
                               Call("finalize", 0)>>
    /\ new_pc' = "done"
    /\ UNCHANGED <<loaderVars, synVars, snarks, new_i, new_accumulators, accVars>>

\* else { (accumulators.pop().unwrap(), Value::unknown()) }
new_pop ==
    /\ new_pc = "snark"
    /\ new_i > Len(snarks)
    /\ ~new_fold_condition
    /\ new_log' = Append(new_log, Call("pop", 0))
    /\ IF new_accumulators = <<>>
       THEN /\ new_pc' = "panic"
            /\ UNCHANGED <<new_accumulators, self>>
       ELSE /\ self' = Some(Accumulation(new_accumulators[Len(new_accumulators)], None))
            /\ new_accumulators' = SubSeq(new_accumulators, 1, Len(new_accumulators) - 1)
            /\ new_pc' = "done"
    /\ UNCHANGED <<loaderVars, synVars, snarks, new_i, accVars>>

(* synthesize, run on the Accumulation that new returned: the region closure *)

\* config.base_field_config.load_lookup_table(&mut layouter)?;
\* let mut first_pass = true; let mut final_pair = None; layouter.assign_region(..)
synthesize_call ==
    /\ syn_pc = "off"
    /\ new_pc = "done"
    /\ syn_log' = <<Call("load_lookup_table", 0), Call("assign_region", 0)>>
    /\ first_pass' = TRUE
    /\ final_pair' = None
    /\ syn_pc' = "assign_region"
    /\ UNCHANGED <<loaderVars, snarks, newVars, accVars, passes, instance_cells>>

\* let using_simple_floor_planner = true;
using_simple_floor_planner == TRUE

\* a closure that never skips its first invocation
skip_never == FALSE

\* if using_simple_floor_planner && first_pass
skip_first_pass == using_simple_floor_planner /\ first_pass

\* { first_pass = false; return Ok(()); }
closure_skip ==
    /\ syn_pc = "assign_region"
    /\ passes < MaxPasses
    /\ skip_first_pass
    /\ passes' = passes + 1
    /\ first_pass' = FALSE
    /\ syn_log' = Append(syn_log, Call("closure", passes + 1))
    /\ UNCHANGED <<loaderVars, snarks, newVars, accVars, syn_pc, final_pair, instance_cells>>

(* accumulate, called by the region closure *)

\* let ctx = config.base_field_config.new_context(region);
\* let loader = Halo2Loader::new(&config.base_field_config, ctx);
\* accumulate(&self.svk, &loader, &self.snarks, &self.as_vk, self.as_proof())
accumulate_call ==
    /\ syn_pc = "assign_region"
    /\ passes < MaxPasses
    /\ ~skip_first_pass
    /\ passes' = passes + 1
    /\ syn_log' = syn_log \o <<Call("closure", passes + 1), Call("new_context", passes + 1),
                               Call("loader_new", passes + 1), Call("accumulate", passes + 1)>>
    /\ syn_pc' = "accumulate"
    /\ acc_pc' = "snark"
    /\ acc_i' = 1
    /\ acc_accumulators' = <<>>
    /\ acc_log' = <<>>
    /\ acc_ret' = None
    /\ UNCHANGED <<loaderVars, snarks, newVars, first_pass, final_pair, instance_cells>>

\* let instances = assign_instances(&snark.instances)
acc_assign_instances ==
    /\ acc_pc = "snark"
    /\ acc_i <= Len(self[1].snarks)
    /\ acc_log' = Append(acc_log, Call("assign_instances", acc_i))
    /\ acc_pc' = "transcript"
    /\ UNCHANGED <<loaderVars, synVars, snarks, newVars, acc_i, acc_accumulators, acc_ret>>

\* PoseidonTranscript::<Rc<Halo2Loader>, _, _>::new(loader, snark.proof())
acc_transcript ==
    /\ acc_pc = "transcript"
    /\ acc_log' = Append(acc_log, Call("transcript", acc_i))
    /\ acc_pc' = "read_proof"
    /\ UNCHANGED <<loaderVars, synVars, snarks, newVars, acc_i, acc_accumulators, acc_ret>>

\* Plonk::read_proof(...).unwrap()
acc_read_proof ==
    /\ acc_pc = "read_proof"
    /\ acc_log' = Append(acc_log, Call("read_proof", acc_i))
    /\ acc_pc' = IF Plonk_read_proof(self[1].snarks[acc_i]).ok
                 THEN "succinct_verify" ELSE "panic"
    /\ UNCHANGED <<loaderVars, synVars, snarks, newVars, acc_i, acc_accumulators, acc_ret>>

\* Plonk::succinct_verify(...).unwrap(), flattened into accumulators
acc_succinct_verify ==
    /\ acc_pc = "succinct_verify"
    /\ acc_log' = Append(acc_log, Call("succinct_verify", acc_i))
    /\ LET r == Plonk_succinct_verify(self[1].snarks[acc_i], FALSE)
       IN  IF r.ok
           THEN /\ acc_accumulators' = acc_accumulators \o r.val
                /\ acc_i' = acc_i + 1
                /\ acc_pc' = "snark"
           ELSE /\ acc_pc' = "panic"
                /\ UNCHANGED <<acc_i, acc_accumulators>>
    /\ UNCHANGED <<loaderVars, synVars, snarks, newVars, acc_ret>>

\* a fold condition that counts the snarks instead of the accumulators
acc_fold_condition_snarks == Len(self[1].snarks) > 1

\* a fold condition that also folds a single accumulator
acc_fold_condition_nonempty == Len(acc_accumulators) > 0

acc_fold_condition == Len(acc_accumulators) > 1

\* if accumulators.len() > 1 { As::read_proof(...).unwrap(); As::verify(...).unwrap() }
acc_verify ==
    /\ acc_pc = "snark"
    /\ acc_i > Len(self[1].snarks)
    /\ acc_fold_condition
    /\ acc_log' = acc_log \o <<Call("as_transcript", 0), Call("as_read_proof", 0),
                               Call("as_verify", 0)>>
    /\ LET proof == As_read_proof(acc_accumulators, self[1].as_proof)
           r == As_verify(acc_accumulators, proof.val)
       IN  IF proof.ok /\ r.ok
           THEN acc_ret' = r.val /\ acc_pc' = "done"
           ELSE acc_pc' = "panic" /\ UNCHANGED acc_ret
    /\ UNCHANGED <<loaderVars, synVars, snarks, newVars, acc_i, acc_accumulators>>

\* else { accumulators.pop().unwrap() }
acc_pop ==
    /\ acc_pc = "snark"
    /\ acc_i > Len(self[1].snarks)
    /\ ~acc_fold_condition
    /\ acc_log' = Append(acc_log, Call("pop", 0))
    /\ IF acc_accumulators = <<>>
       THEN /\ acc_pc' = "panic"
            /\ UNCHANGED <<acc_accumulators, acc_ret>>
       ELSE /\ acc_ret' = Some(acc_accumulators[Len(acc_accumulators)])
            /\ acc_accumulators' = SubSeq(acc_accumulators, 1, Len(acc_accumulators) - 1)
            /\ acc_pc' = "done"
    /\ UNCHANGED <<loaderVars, synVars, snarks, newVars, acc_i>>

(* synthesize: after accumulate *)

\* loader.finalize(), once accumulate has returned (a panic of accumulate
\* unwinds through the closure and synthesize)
closure_finalize ==
    /\ syn_pc = "accumulate"
    /\ acc_pc \in {"done", "panic"}
    /\ IF acc_pc = "panic"
       THEN /\ syn_pc' = "panic"
            /\ UNCHANGED syn_log
       ELSE /\ syn_pc' = "finalized"
            /\ syn_log' = syn_log \o <<Call("accumulate_returned", passes),
                                       Call("finalize", passes)>>
    /\ UNCHANGED <<loaderVars, snarks, newVars, accVars, first_pass, final_pair, passes,
                   instance_cells>>

\* lhs.assigned(), rhs.assigned(): the assigned point, each coordinate the
\* limbs of its truncation (x.truncation.limbs, y.truncation.limbs)
assigned(point) ==
    [x |-> fe_to_limbs(CoordX(point)), y |-> fe_to_limbs(CoordY(point))]

\* final_pair = Some((lhs.assigned(), rhs.assigned())); Ok(())
closure_record ==
    /\ syn_pc = "finalized"
    /\ final_pair' = Some(<<assigned(acc_ret[1][1]), assigned(acc_ret[1][2])>>)
    /\ syn_log' = Append(syn_log, Call("final_pair", passes))
    /\ syn_pc' = "assign_region"
    /\ UNCHANGED <<loaderVars, snarks, newVars, accVars, first_pass, passes, instance_cells>>

\* assign_region(..)? returns; let (lhs, rhs) = final_pair.unwrap();
assign_region_return ==
    /\ syn_pc = "assign_region"
    /\ passes >= 1
    /\ syn_log' = Append(syn_log, Call("assign_region_return", passes))
    /\ syn_pc' = IF final_pair = None THEN "panic" ELSE "expose"
    /\ UNCHANGED <<loaderVars, snarks, newVars, accVars, first_pass, final_pair, passes,
                   instance_cells>>

\* limbs exposed in the order of a swapped chain: lhs.x, rhs.x, lhs.y, rhs.y
exposed_limbs_swapped(pair) ==
    pair[1].x \o pair[2].x \o pair[1].y \o pair[2].y

\* lhs.x.truncation.limbs.iter().chain(lhs.y ..).chain(rhs.x ..).chain(rhs.y ..)
exposed_limbs(pair) ==
    pair[1].x \o pair[1].y \o pair[2].x \o pair[2].y

\* layouter.constrain_instance(assigned_instance.cell().clone(), config.instance, i)?
\* for the next (i, assigned_instance) of the enumeration; the instance column
\* of the configuration is column 0
constrain_instance ==
    /\ syn_pc = "expose"
    /\ Len(instance_cells) < Len(exposed_limbs(final_pair[1]))
    /\ LET i == Len(instance_cells)
       IN  /\ instance_cells' =
                Append(instance_cells, <<0, i, exposed_limbs(final_pair[1])[i + 1]>>)
           /\ syn_log' = Append(syn_log, Call("constrain_instance", i))
    /\ UNCHANGED <<loaderVars, snarks, newVars, accVars, syn_pc, first_pass, final_pair,
                   passes>>

\* Ok(..): every limb is exposed
synthesize_return ==
    /\ syn_pc = "expose"
    /\ Len(instance_cells) = Len(exposed_limbs(final_pair[1]))
    /\ syn_pc' = "done"
    /\ UNCHANGED <<loaderVars, snarks, newVars, accVars, first_pass, final_pair, passes,
                   syn_log, instance_cells>>

PipelineNext ==
    \/ synthesize_call
    \/ closure_skip
    \/ closure_finalize
    \/ closure_record
    \/ assign_region_return
    \/ constrain_instance
    \/ synthesize_return
    \/ new_transcript
    \/ new_read_proof
    \/ new_succinct_verify
    \/ new_create_proof
    \/ new_pop
    \/ accumulate_call
    \/ acc_assign_instances
    \/ acc_transcript
    \/ acc_read_proof
    \/ acc_succinct_verify
    \/ acc_verify
    \/ acc_pop

PipelineSpec == PipelineInit /\ [][PipelineNext]_vars

-----------------------------------------------------------------------------
(* Properties of the loader methods, checked under Spec *)

Returned(m) == pc = "return" /\ op = m

\* x multiplied by itself: n factors
RECURSIVE RepeatedMul(_, _)
RepeatedMul(x, n) == IF n = 1 THEN x % P ELSE (x * RepeatedMul(x, n - 1)) % P

\* C1: for every scalar x and every exponent n > 0, pow_const(x, n) returns
\* the product of n factors x, whatever the bits of n.
C1_pow_const_is_repeated_multiplication ==
    (Returned("pow_const") /\ args.n > 0) =>
        /\ ret.status = "ok"
        /\ ret.val = RepeatedMul(args.x, args.n)

\* 2^6 = 64 = 9 (mod 11): an even exponent that is no power of two
C1_witness ==
    Returned("pow_const") /\ args.x = 2 /\ args.n = 6 /\ ret.status = "ok" /\ ret.val = 9

\* C2: after batch_invert every position holds the inverse of the value that
\* was there when it has one and the value itself when it is zero; length and
\* order are kept and no error is reported.
C2_batch_invert_elementwise ==
    Returned("batch_invert") =>
        /\ ret.status = "ok"
        /\ Len(ret.val) = Len(args.values)
        /\ \A i \in 1 .. Len(args.values) :
              IF args.values[i] = 0
              THEN ret.val[i] = 0
              ELSE (ret.val[i] * args.values[i]) % P = 1

\* a zero kept between two inverted values: 1/2 = 6, 1/7 = 8 (mod 11)
C2_witness ==
    Returned("batch_invert") /\ args.values = <<2, 0>> /\ ret.val = <<6, 0>>

\* C8: for n >= 1, powers(x, n) has exactly n elements, the element at index
\* i (from 0) is x^i, and the first one is the loaded constant one.
C8_powers_sequence ==
    (Returned("powers") /\ args.n >= 1) =>
        /\ ret.status = "ok"
        /\ Len(ret.val) = args.n
        /\ ret.val[1] = 1
        /\ ret.ops[1] = Op("load_const", 1)
        /\ \A i \in 2 .. args.n : ret.val[i] = RepeatedMul(args.x, i - 1)

C8_witness ==
    Returned("powers") /\ args.x = 2 /\ args.n = 4 /\ ret.val = <<1, 2, 4, 8>>

\* C9: invert(x) is absent when x is zero, and otherwise is a value y with
\* y * x = 1.
C9_invert_is_inverse_or_absent ==
    Returned("invert") =>
        IF args.x = 0
        THEN ret.val = None
        ELSE /\ ret.val # None
             /\ (ret.val[1] * args.x) % P = 1

C9_witness == Returned("invert") /\ args.x = 3 /\ ret.val = Some(4)

\* C13: pow_const with exponent 0 fails for every base x before any squaring
\* or multiplication is performed, and never returns a value.
C13_pow_const_zero_exponent_fails ==
    (Returned("pow_const") /\ args.n = 0) =>
        /\ ret.status = "panic"
        /\ ret.val = None
        /\ ret.ops = <<>>

C13_witness ==
    Returned("pow_const") /\ args.x = 2 /\ args.n = 0 /\ ret = Panic(<<>>)

SumMethods ==
    {"sum_with_coeff_and_constant", "sum_with_coeff", "sum_with_const", "sum"}
SumProductsMethods ==
    {"sum_products_with_coeff_and_constant", "sum_products_with_coeff", "sum_products"}

\* The coefficient, the factors and the constant a call of a sum method
\* stands for: the methods without coefficients use one, those without a
\* constant use zero.
CoeffOf(m, v) == IF m \in {"sum_with_const", "sum", "sum_products"} THEN 1 ELSE v[1]

FactorsOf(m, v) ==
    CASE m \in {"sum_with_const", "sum"} -> v
      [] m \in {"sum_with_coeff_and_constant", "sum_with_coeff"} -> v[2]
      [] m = "sum_products" -> v[1] * v[2]
      [] OTHER -> v[2] * v[3]

ConstantOf(m) ==
    IF m \in {"sum_with_coeff_and_constant", "sum_products_with_coeff_and_constant",
              "sum_with_const"}
    THEN args.constant ELSE 0

NonUnitCoeffs(m, values) ==
    Cardinality({i \in 1 .. Len(values) : CoeffOf(m, values[i]) # 1})

\* C6: on a non-empty list the sum methods load the constant only when it is
\* not zero and load and multiply by a coefficient only when it is not one:
\* load_const is called once per non-unit coefficient, plus once for a
\* non-zero constant, and a term whose coefficient is one costs no
\* multiplication (none in a sum, the one lhs * rhs in a sum of products).
C6_sum_skips_unit_coeff_and_zero_constant ==
    (pc = "return" /\ op \in SumMethods \cup SumProductsMethods
        /\ Len(args.values) > 0) =>
        /\ ret.status = "ok"
        /\ CountOps(ret.ops, "load_const") =
              (IF ConstantOf(op) # 0 THEN 1 ELSE 0) + NonUnitCoeffs(op, args.values)
        /\ CountOps(ret.ops, "mul") =
              (IF op \in SumProductsMethods THEN Len(args.values) ELSE 0)
              + NonUnitCoeffs(op, args.values)

\* one unit and one non-unit coefficient with a non-zero constant: two loads
C6_witness ==
    /\ Returned("sum_with_coeff_and_constant")
    /\ args.values = <<<<1, 2>>, <<P - 1, 7>>>>
    /\ args.constant = 3
    /\ CountOps(ret.ops, "load_const") = 2
    /\ CountOps(ret.ops, "mul") = 1

RECURSIVE RefSum(_, _, _)
RefSum(m, values, k) ==
    IF k = 0 THEN 0
    ELSE RefSum(m, values, k - 1) + CoeffOf(m, values[k]) * FactorsOf(m, values[k])

RECURSIVE RefProduct(_, _)
RefProduct(values, k) == IF k = 0 THEN 1 ELSE RefProduct(values, k - 1) * values[k]

\* C7: the sum methods return constant + sum of coeff_i * value_i (or of
\* coeff_i * lhs_i * rhs_i) and product returns the product of the values;
\* for an empty list the result is the loaded constant alone: the constant,
\* zero included, for the sums and one for product.
C7_linear_combinations_match_reference ==
    /\ (pc = "return" /\ op \in SumMethods \cup SumProductsMethods) =>
          /\ ret.status = "ok"
          /\ ret.val = (ConstantOf(op) + RefSum(op, args.values, Len(args.values))) % P
          /\ Len(args.values) = 0 => ret.ops = <<Op("load_const", ConstantOf(op))>>
    /\ Returned("product") =>
          /\ ret.status = "ok"
          /\ ret.val = RefProduct(args.values, Len(args.values)) % P
          /\ Len(args.values) = 0 => ret.ops = <<Op("load_const", 1)>>

\* 3 + 1*2*7 + (-1)*7*2 = 3
C7_witness ==
    /\ Returned("sum_products_with_coeff_and_constant")
    /\ args.values = <<<<1, 2, 7>>, <<P - 1, 7, 2>>>>
    /\ args.constant = 3
    /\ ret.val = 3

-----------------------------------------------------------------------------
(* Properties of the pipelines, checked under PipelineSpec *)

\* The accumulators that succinct verification of the first k snarks yields:
\* for each snark, in input order, those its instances carry, then its own.
RECURSIVE Yield(_, _)
Yield(ss, k) == IF k = 0 THEN <<>> ELSE Yield(ss, k - 1) \o ss[k].old \o <<ss[k].acc>>

Has(log, what) == \E j \in 1 .. Len(log) : log[j][1] = what

Count(log, what) == Cardinality({j \in 1 .. Len(log) : log[j][1] = what})

\* The snarks of the calls `what` of a log, in the order of the calls.
RECURSIVE SnarksOf(_, _)
SnarksOf(log, what) ==
    IF log = <<>> THEN <<>>
    ELSE (IF Head(log)[1] = what THEN <<Head(log)[2]>> ELSE <<>>)
         \o SnarksOf(Tail(log), what)

\* The calls made per snark, without the circuit's assignment of instances.
RECURSIVE SnarkSteps(_)
SnarkSteps(log) ==
    IF log = <<>> THEN <<>>
    ELSE (IF Head(log)[1] \in {"transcript", "read_proof", "succinct_verify"}
          THEN <<Head(log)>> ELSE <<>>)
         \o SnarkSteps(Tail(log))

RECURSIVE ExpectedSteps(_)
ExpectedSteps(k) ==
    IF k = 0 THEN <<>>
    ELSE ExpectedSteps(k - 1)
         \o <<Call("transcript", k), Call("read_proof", k), Call("succinct_verify", k)>>

FoldCalls == {"as_transcript", "create_proof", "finalize", "as_read_proof", "as_verify"}
SnarkCalls == {"assign_instances", "transcript", "read_proof", "succinct_verify"}

Folded(log) == \E j \in 1 .. Len(log) : log[j][1] \in FoldCalls

\* C3: when succinct verification of the snarks yields exactly one
\* accumulator, Accumulation::new returns it unchanged and records no
\* accumulation proof; as_proof is known exactly when two or more
\* accumulators were folded.
C3_single_accumulator_unchanged_no_proof ==
    new_pc = "done" =>
        LET accs == Yield(snarks, Len(snarks))
        IN  /\ self # None
            /\ Len(accs) = 1 =>
                  /\ self[1].accumulator = accs[1]
                  /\ self[1].as_proof = None
                  /\ ~Folded(new_log)
            /\ (self[1].as_proof # None) <=> (Len(accs) >= 2)
            /\ (self[1].as_proof # None) <=> Has(new_log, "create_proof")

C3_witness ==
    /\ new_pc = "done"
    /\ Len(Yield(snarks, Len(snarks))) = 1
    /\ self = Some(Accumulation(snarks[1].acc, None))

\* C4 as stated: for every batch of exactly one proof, the pipeline returns the
\* accumulator of that proof's succinct verification, no fold is performed and
\* no accumulation proof is written or read.
C4_one_proof_never_folds ==
    (acc_pc = "done" /\ Len(snarks) = 1) =>
        /\ Plonk_succinct_verify(snarks[1], TRUE).val = <<self[1].accumulator>>
        /\ acc_ret = Some(self[1].accumulator)
        /\ ~Folded(new_log) /\ ~Folded(acc_log)
        /\ self[1].as_proof = None

\* C4, amended: for every batch of exactly one proof whose succinct
\* verification yields exactly one accumulator (its instances carry none), the
\* pipeline returns that accumulator, no fold is performed and no accumulation
\* proof is written or read.
C4_one_proof_one_accumulator_never_folds ==
    (acc_pc = "done" /\ Len(snarks) = 1
        /\ Len(Plonk_succinct_verify(snarks[1], TRUE).val) = 1) =>
        /\ Plonk_succinct_verify(snarks[1], TRUE).val = <<self[1].accumulator>>
        /\ acc_ret = Some(self[1].accumulator)
        /\ ~Folded(new_log) /\ ~Folded(acc_log)
        /\ self[1].as_proof = None

C4_witness ==
    /\ acc_pc = "done"
    /\ Len(snarks) = 1
    /\ snarks[1].old = <<>>
    /\ acc_ret = Some(snarks[1].acc)
    /\ acc_log = <<Call("assign_instances", 1), Call("transcript", 1),
                   Call("read_proof", 1), Call("succinct_verify", 1), Call("pop", 0)>>

\* C5: on the same snarks both pipelines make the same calls per snark, in
\* input order (a fresh transcript, read_proof, succinct_verify), collect the
\* same accumulators in the same order, and take the same decision to fold;
\* accumulate reads the accumulation proof exactly when new wrote one.
C5_pipelines_make_the_same_steps ==
    /\ (new_pc = "snark" /\ new_i > Len(snarks)) =>
          new_accumulators = Yield(snarks, Len(snarks))
    /\ (acc_pc = "snark" /\ acc_i > Len(snarks)) =>
          acc_accumulators = Yield(snarks, Len(snarks))
    /\ acc_pc = "done" =>
          /\ SnarkSteps(new_log) = ExpectedSteps(Len(snarks))
          /\ SnarkSteps(acc_log) = SnarkSteps(new_log)
          /\ Has(acc_log, "as_verify") <=> Has(new_log, "create_proof")
          /\ Has(acc_log, "pop") <=> Has(new_log, "pop")
          /\ Has(acc_log, "as_read_proof") <=> (self[1].as_proof # None)

C5_witness ==
    /\ acc_pc = "done"
    /\ Len(snarks) = 2
    /\ Has(new_log, "create_proof")
    /\ Has(acc_log, "as_read_proof")
    /\ SnarkSteps(acc_log) = ExpectedSteps(2)

\* What both statements of C10 share: succinct verification runs once per
\* proof in input order, the fold runs at most once, only after the last
\* succinct verification, over the accumulators in the order collected.
OrderedThenFold(log) ==
    /\ \E m \in 0 .. Len(snarks) :
          SnarksOf(log, "succinct_verify") = [i \in 1 .. m |-> i]
    /\ Folded(log) => SnarksOf(log, "succinct_verify") = [i \in 1 .. Len(snarks) |-> i]
    /\ \A j \in 1 .. Len(log) : \A k \in (j + 1) .. Len(log) :
          log[j][1] \in FoldCalls => log[k][1] \notin SnarkCalls
    /\ Count(log, "create_proof") + Count(log, "as_verify") <= 1

C10_common ==
    /\ OrderedThenFold(new_log)
    /\ OrderedThenFold(acc_log)
    /\ new_pc = "done" =>
          /\ SnarksOf(new_log, "succinct_verify") = [i \in 1 .. Len(snarks) |-> i]
          /\ Folded(new_log) =>
                self[1].accumulator =
                    As_create_proof(Yield(snarks, Len(snarks))).accumulator
    /\ acc_pc = "done" =>
          /\ SnarksOf(acc_log, "succinct_verify") = [i \in 1 .. Len(snarks) |-> i]
          /\ Folded(acc_log) =>
                acc_ret = As_verify(Yield(snarks, Len(snarks)), Some(Blind)).val

\* C10 as stated: for N proofs, succinct verification runs exactly once per
\* proof, in input order, to get N accumulators; only then the fold runs, at
\* most once, over them in that order, and no succinct verification follows it.
C10_n_proofs_give_n_accumulators ==
    /\ C10_common
    /\ (new_pc = "snark" /\ new_i > Len(snarks)) => Len(new_accumulators) = Len(snarks)
    /\ (acc_pc = "snark" /\ acc_i > Len(snarks)) => Len(acc_accumulators) = Len(snarks)

\* C10, amended: for N proofs, succinct verification runs exactly once per
\* proof, in input order, to get the accumulators of every proof (one per
\* proof plus those its instances carry, so N or more); only then the fold
\* runs, at most once, over them in that order, and no succinct verification
\* follows it.
C10_verify_each_proof_then_fold_once ==
    /\ C10_common
    /\ (new_pc = "snark" /\ new_i > Len(snarks)) =>
          /\ new_accumulators = Yield(snarks, Len(snarks))
          /\ Len(new_accumulators) >= Len(snarks)
    /\ (acc_pc = "snark" /\ acc_i > Len(snarks)) =>
          /\ acc_accumulators = Yield(snarks, Len(snarks))
          /\ Len(acc_accumulators) >= Len(snarks)

C10_witness ==
    /\ acc_pc = "done"
    /\ Len(snarks) = 2
    /\ SnarksOf(acc_log, "succinct_verify") = <<1, 2>>
    /\ Count(new_log, "create_proof") = 1
    /\ Count(acc_log, "as_verify") = 1

\* The last call of a log reported an error to the pipeline.
ErrorReported(log, ss, native) ==
    /\ log # <<>>
    /\ LET c == log[Len(log)]
       IN  \/ c[1] = "read_proof" /\ ~Plonk_read_proof(ss[c[2]]).ok
           \/ c[1] = "succinct_verify" /\ ~Plonk_succinct_verify(ss[c[2]], native).ok

CircuitLimbs == native_instances(acc_ret[1])

\* C11: the in-circuit run exposes the final accumulator as exactly
\* 4 * LIMBS cells of instance column 0, row i constrained to the i-th limb
\* of the concatenation lhs.x, lhs.y, rhs.x, rhs.y; this is the count and the
\* order of the instance vector that Accumulation::new computed natively and
\* of the positions (0, 0) .. (0, 4 * LIMBS - 1) listed by accumulator_indices.
C11_instances_exposed_in_limb_order ==
    /\ Len(instance_cells) <= 4 * LIMBS
    /\ \A i \in 1 .. Len(instance_cells) :
          /\ instance_cells[i] = <<0, i - 1, CircuitLimbs[i]>>
          /\ <<instance_cells[i][1], instance_cells[i][2]>> = accumulator_indices[i]
          /\ instance_cells[i][3] = self[1].instances[i]
    /\ syn_pc = "done" =>
          /\ Len(instance_cells) = 4 * LIMBS
          /\ Len(self[1].instances) = 4 * LIMBS
          /\ Len(accumulator_indices) = 4 * LIMBS
          /\ [i \in 1 .. 4 * LIMBS |-> instance_cells[i][3]] = self[1].instances

\* synthesize returned after exposing the limbs of a folded accumulator whose
\* lhs.y and rhs.x limbs differ
C11_witness ==
    /\ syn_pc = "done"
    /\ Len(instance_cells) = 4 * LIMBS
    /\ self[1].as_proof # None
    /\ final_pair[1][1].y # final_pair[1][2].x

\* The positions of the calls `what` of invocation k in the log of synthesize.
At(what, k) == {j \in 1 .. Len(syn_log) : syn_log[j] = Call(what, k)}

\* C14: in synthesize the first invocation of the region closure does
\* nothing (no loader, no accumulate, final_pair stays unset); each later
\* invocation runs accumulate to completion, then calls loader.finalize()
\* exactly once, and only then records the accumulator pair; limbs are
\* constrained to the instance column only after assign_region has returned,
\* hence after finalize, and synthesize fails without exposing anything when
\* the closure was invoked only once.
C14_first_pass_skipped_then_finalize_before_expose ==
    /\ At("new_context", 1) = {} /\ At("loader_new", 1) = {} /\ At("accumulate", 1) = {}
    /\ passes <= 1 => final_pair = None /\ acc_pc = "off" /\ acc_log = <<>>
    /\ \A k \in 2 .. passes :
          /\ Cardinality(At("loader_new", k)) = 1
          /\ Cardinality(At("accumulate", k)) = 1
          /\ Cardinality(At("finalize", k)) <= 1
          /\ \A j \in At("finalize", k) :
                /\ syn_log[j - 1] = Call("accumulate_returned", k)
                /\ syn_log[j - 2] = Call("accumulate", k)
          /\ Cardinality(At("final_pair", k)) <= 1
          /\ \A j \in At("final_pair", k) : syn_log[j - 1] = Call("finalize", k)
          /\ (k < passes \/ syn_pc \in {"expose", "done"}) =>
                At("finalize", k) # {} /\ At("final_pair", k) # {}
    /\ syn_pc = "accumulate" =>
          /\ syn_log[Len(syn_log)] = Call("accumulate", passes)
          /\ acc_pc # "panic"
    /\ syn_pc = "finalized" =>
          /\ acc_pc = "done" /\ acc_ret # None
          /\ syn_log[Len(syn_log)] = Call("finalize", passes)
          /\ At("final_pair", passes) = {}
    /\ final_pair # None => \E k \in 2 .. passes : At("final_pair", k) # {}
    /\ \A j \in 1 .. Len(syn_log) :
          syn_log[j][1] = "constrain_instance" =>
            \E r, f \in 1 .. j - 1 :
                /\ f < r
                /\ syn_log[r][1] = "assign_region_return"
                /\ syn_log[f][1] = "finalize"
    /\ instance_cells # <<>> => Has(syn_log, "assign_region_return") /\ Has(syn_log, "finalize")
    /\ syn_pc \in {"expose", "done"} => passes >= 2
    /\ At("assign_region_return", 1) # {} =>
          syn_pc = "panic" /\ instance_cells = <<>> /\ final_pair = None

\* the closure ran three times and every limb was exposed after that
C14_witness ==
    /\ syn_pc = "done"
    /\ passes = 3
    /\ Cardinality(At("finalize", 2)) = 1
    /\ Cardinality(At("finalize", 3)) = 1
    /\ Len(instance_cells) = 4 * LIMBS

\* assign_region invoked the closure once only: final_pair.unwrap() panics
C14_witness_single_pass ==
    /\ syn_pc = "panic"
    /\ passes = 1
    /\ instance_cells = <<>>

====
